---- MODULE Spec2Model ----
(***************************************************************************)
(* State-machine model of the two validators of the repository:           *)
(*   scripts/preflight.py      (preflight checks before an export)        *)
(*   scripts/verify_bundle.py  (verification of an exported bundle)       *)
(*                                                                         *)
(* Documents (the YAML configuration, the JSON manifest) are modelled by   *)
(* their shape: every value the code reads is either of the type the code  *)
(* expects, absent, or "junk" (a value of another type, on which the       *)
(* attribute access or operator the code applies raises).  An exception    *)
(* that no handler of the code catches ends the process with a traceback   *)
(* and exit status 1.                                                      *)
(***************************************************************************)
EXTENDS Integers, Sequences, FiniteSets, TLC

VARIABLES
    tool,           \* "preflight" | "verify"
    pc,             \* position of the process
    caller,         \* "main" when the check functions run from main()
    argv,           \* command line: "ok" | "usage" | "help"
    bundle_arg,     \* args.bundle (NONE when the option is not given)
    cfgfile,        \* state of the configuration file
    cfg,            \* parsed configuration (read when cfgfile = "ok")
    token,          \* NOTION_TOKEN: -1 when unset, else its length
    fs,             \* output directory: root, probe file, other files
    fs0,            \* the output directory before the check ran
    syscalls,       \* outcomes of mkdir / write_text / unlink
    mfile,          \* state of the manifest file
    manifest,       \* parsed manifest (read when mfile = "ok")
    content,        \* text of the data file being read (list of characters)
    checks_passed,  \* main(): accumulated result
    all_valid,      \* a check's accumulated result
    keys_to_check,  \* check_bundle_config: keys to iterate
    idx,            \* loop index of the running check (items, keys)
    res,            \* result of each check: "notrun" | "true" | "false" | "raised"
    order,          \* checks in the order they were entered
    report,         \* diagnostics of the running loop, one record per iteration
    exit_status,    \* -1 while running, else the process exit status
    ended           \* how the run ended

vars == << tool, pc, caller, argv, bundle_arg, cfgfile, cfg, token, fs, fs0, syscalls,
           mfile, manifest, content, checks_passed, all_valid, keys_to_check,
           idx, res, order, report, exit_status, ended >>

----------------------------------------------------------------------------
(* Bounds of the model *)
MaxDbs == 2
MaxItems == 2
MaxLen == 4

(* Program constants *)
MinTokenLen == 20

NONE == "<None>"
TODO_MARKER == << "T", "O", "D", "O", ":" >>
DEFAULT_VERSION == "1.0.0"

BundleKeys == { "governance", "ops" }
UnknownKey == "missing"

----------------------------------------------------------------------------
(* Helpers *)

SeqsUpTo(S, n) == UNION { [1..k -> S] : k \in 0..n }

BoolStr(b) == IF b THEN "true" ELSE "false"

\* Python truthiness of an optional string argument
Truthy(s) == s # NONE /\ s # ""

\* str.startswith
StartsWith(s, prefix) ==
    Len(s) >= Len(prefix) /\ SubSeq(s, 1, Len(prefix)) = prefix

----------------------------------------------------------------------------
(* Shapes of the configuration document *)

Urls == { TODO_MARKER, << "x" >> \o TODO_MARKER }

JunkDb == [kind |-> "junk", urlkind |-> "absent", url |-> << >>]

DbEntries ==
    { JunkDb }
    \cup { [kind |-> "map", urlkind |-> k, url |-> << >>] : k \in { "absent", "junk" } }
    \cup { [kind |-> "map", urlkind |-> "str", url |-> u] : u \in Urls }

JunkBundle(k) ==
    [key |-> k, kind |-> "junk", name |-> FALSE, sv |-> "absent",
     dbkind |-> "absent", dbs |-> << >>]

\* the bundle definitions under key k with at most n database entries
BundleShapes(k, n, versions) ==
    { JunkBundle(k) }
    \cup { [key |-> k, kind |-> "map", name |-> nm, sv |-> v, dbkind |-> dk, dbs |-> << >>] :
             nm \in BOOLEAN, v \in versions, dk \in { "absent", "empty", "junk" } }
    \cup { [key |-> k, kind |-> "map", name |-> nm, sv |-> v, dbkind |-> "list", dbs |-> d] :
             nm \in BOOLEAN, v \in versions, d \in SeqsUpTo(DbEntries, n) \ { << >> } }

\* ordered bundle maps over BundleKeys with at most n database entries in all
BundleMaps(n, versions) ==
    LET B == UNION { BundleShapes(k, n, versions) : k \in BundleKeys }
    IN  { << b >> : b \in B }
        \cup { p \in B \X B : p[1].key # p[2].key /\ Len(p[1].dbs) + Len(p[2].dbs) <= n }

Config(t, ek, bs, dk, rk, mk) ==
    [top |-> t, ebkind |-> ek, bundles |-> bs, dfkind |-> dk, rootkind |-> rk, mfkind |-> mk]

\* the `defaults` section: absent, not a mapping, or a mapping whose
\* output_root / manifest_filename are absent, strings or of another type
Defaults ==
    { << "absent", "absent", "absent" >>, << "junk", "absent", "absent" >>,
      << "map", "absent", "absent" >>, << "map", "str", "str" >>,
      << "map", "junk", "absent" >>, << "map", "absent", "junk" >> }

\* documents that are no mapping: the empty document (None) and a scalar or list
NonMappings ==
    { Config(t, "absent", << >>, "absent", "absent", "absent") : t \in { "none", "scalar" } }

Configs(maps, defaults) ==
    NonMappings
    \cup { Config("map", ek, << >>, d[1], d[2], d[3]) :
             ek \in { "absent", "null", "empty" }, d \in defaults }
    \cup { Config("map", "map", bs, d[1], d[2], d[3]) : bs \in maps, d \in defaults }
    \cup { Config("map", "list", << JunkBundle(k) >>, d[1], d[2], d[3]) :
             k \in BundleKeys, d \in defaults }

Keys(c) == [i \in 1..Len(c.bundles) |-> c.bundles[i].key]

HasKey(c, key) == \E i \in 1..Len(c.bundles) : c.bundles[i].key = key

Lookup(c, key) == c.bundles[CHOOSE i \in 1..Len(c.bundles) : c.bundles[i].key = key]

----------------------------------------------------------------------------
(* preflight.py: check_notion_token *)

check_notion_token(tok) ==
    IF tok = -1 \/ tok = 0 THEN FALSE          \* not token
    ELSE IF tok < MinTokenLen THEN FALSE
    ELSE TRUE

----------------------------------------------------------------------------
(* preflight.py: check_bundle_config, the body of the loop over the keys *)

\* one database entry: "raise" | "todo" | "ok"
CheckDb(db) ==
    IF db.kind # "map" THEN "raise"                  \* db.get on a non-mapping
    ELSE IF db.urlkind = "junk" THEN "raise"         \* notion_url.startswith
    ELSE LET notion_url == IF db.urlkind = "absent" THEN << >> ELSE db.url
         IN  IF StartsWith(notion_url, TODO_MARKER) THEN "todo" ELSE "ok"

\* the loop over the databases of a bundle: it stops at the first entry that raises
RECURSIVE CheckDbs(_, _)
CheckDbs(dbs, acc) ==
    IF dbs = << >> THEN acc
    ELSE LET r == CheckDb(Head(dbs))
         IN  IF r = "raise" THEN [acc EXCEPT !.raised = TRUE]
             ELSE IF r = "todo"
                  THEN CheckDbs(Tail(dbs), [acc EXCEPT !.todo_count = @ + 1, !.warns = @ + 1])
                  ELSE CheckDbs(Tail(dbs), acc)

\* a bundle check in which a placeholder URL counts as a failure
CheckBundle_TodoInvalid(bundle) ==
    IF bundle.kind # "map"
    THEN [raised |-> TRUE, valid |-> TRUE, fails |-> 0, warns |-> 0, todo |-> -1]
    ELSE LET name_ok == bundle.name
             sv_ok == bundle.sv # "absent"
             f == (IF name_ok THEN 0 ELSE 1) + (IF sv_ok THEN 0 ELSE 1)
         IN  IF bundle.dbkind \in { "absent", "empty" }
             THEN [raised |-> FALSE, valid |-> FALSE, fails |-> f + 1, warns |-> 0, todo |-> -1]
             ELSE IF bundle.dbkind = "junk"
             THEN [raised |-> TRUE, valid |-> name_ok /\ sv_ok, fails |-> f, warns |-> 0, todo |-> -1]
             ELSE LET d == CheckDbs(bundle.dbs, [raised |-> FALSE, todo_count |-> 0, warns |-> 0])
                  IN  [raised |-> d.raised, valid |-> name_ok /\ sv_ok /\ d.todo_count = 0,
                       fails |-> f, warns |-> d.warns,
                       todo |-> IF ~d.raised /\ d.todo_count > 0 THEN d.todo_count ELSE -1]

\* one found bundle: the failure lines printed, whether all_valid is left
\* alone (valid), the warnings printed per entry, the TODO count reported
\* (-1 when none is), and whether the body raised
CheckBundle(bundle) ==
    IF bundle.kind # "map"
    THEN [raised |-> TRUE, valid |-> TRUE, fails |-> 0, warns |-> 0, todo |-> -1]
    ELSE LET name_ok == bundle.name                    \* "name" in bundle
             sv_ok == bundle.sv # "absent"             \* "schema_version" in bundle
             f == (IF name_ok THEN 0 ELSE 1) + (IF sv_ok THEN 0 ELSE 1)
         IN  IF bundle.dbkind \in { "absent", "empty" }            \* not databases
             THEN [raised |-> FALSE, valid |-> FALSE, fails |-> f + 1, warns |-> 0, todo |-> -1]
             ELSE IF bundle.dbkind = "junk"
             THEN [raised |-> TRUE, valid |-> name_ok /\ sv_ok, fails |-> f, warns |-> 0, todo |-> -1]
             ELSE LET d == CheckDbs(bundle.dbs, [raised |-> FALSE, todo_count |-> 0, warns |-> 0])
                  IN  [raised |-> d.raised, valid |-> name_ok /\ sv_ok, fails |-> f,
                       warns |-> d.warns,
                       todo |-> IF ~d.raised /\ d.todo_count > 0 THEN d.todo_count ELSE -1]

----------------------------------------------------------------------------
(* preflight.py: check_output_directories, lines 115-125: the probe *)

\* mkdir(parents=True, exist_ok=True): succeeds on an existing directory, fails
\* on an existing file, and otherwise succeeds or fails as the system decides
MkdirOutcome(f, o) ==
    IF f.root = "dir" THEN "ok" ELSE IF f.root = "file" THEN "fail" ELSE o.mkdir

\* the outcomes that were in fact consulted ("-" for a call never made)
Consulted(f, o) ==
    LET mk == MkdirOutcome(f, o)
    IN  [mkdir |-> mk,
         write |-> IF mk = "ok" THEN o.write ELSE "-",
         unlink |-> IF mk = "ok" /\ o.write = "ok" THEN o.unlink ELSE "-"]

\* write_text: "fail" leaves the directory as it was (open failed), "partial"
\* failed after the file was created or truncated
AfterWrite(f, w) ==
    IF w = "fail" THEN f ELSE [f EXCEPT !.probe = "file"]

AfterUnlink(f, u) ==
    IF u = "ok" THEN [f EXCEPT !.probe = "absent"] ELSE f

\* a probe that is written and never deleted
ProbeWrite_NoUnlink(f, o) ==
    LET c == Consulted(f, o)
        f1 == IF c.mkdir = "ok" THEN [f EXCEPT !.root = "dir"] ELSE f
    IN  IF c.mkdir # "ok" THEN [result |-> FALSE, fs |-> f1]
        ELSE IF c.write # "ok" THEN [result |-> FALSE, fs |-> AfterWrite(f1, c.write)]
        ELSE [result |-> TRUE, fs |-> AfterWrite(f1, "ok")]

\* the try block: result and the directory it leaves
ProbeWrite(f, o) ==
    LET c == Consulted(f, o)
        f1 == IF c.mkdir = "ok" THEN [f EXCEPT !.root = "dir"] ELSE f
    IN  IF c.mkdir # "ok" THEN [result |-> FALSE, fs |-> f1]
        ELSE IF c.write # "ok" THEN [result |-> FALSE, fs |-> AfterWrite(f1, c.write)]
        ELSE IF c.unlink # "ok" THEN [result |-> FALSE, fs |-> AfterWrite(f1, "ok")]
        ELSE [result |-> TRUE, fs |-> AfterUnlink(AfterWrite(f1, "ok"), "ok")]

Outcomes ==
    [mkdir : { "ok", "fail" }, write : { "ok", "fail", "partial" }, unlink : { "ok", "fail" }]

NoSyscalls == [mkdir |-> "-", write |-> "-", unlink |-> "-"]

----------------------------------------------------------------------------
(* Control flow shared by the check functions *)

NoRes ==
    [token |-> "notrun", bundle |-> "notrun", dir |-> "notrun", manifest |-> "notrun",
     csv |-> "notrun", schema |-> "notrun", chitty |-> "notrun"]

\* where main() continues after a check returned
After(check) ==
    CASE check = "token"  -> "check_bundle_config"
      [] check = "bundle" -> "check_output_directories"
      [] check = "dir"    -> "summary"
      [] check = "csv"    -> "verify_schema_version"
      [] check = "schema" -> "verify_chittyid_compliance"
      [] check = "chitty" -> "summary"

\* `checks_passed = check(...)`: the last result alone decides
Return_Overwrite(check, value) ==
    /\ res' = [res EXCEPT ![check] = BoolStr(value)]
    /\ checks_passed' = IF caller = "main" THEN value ELSE checks_passed
    /\ pc' = IF caller = "main" THEN After(check) ELSE "returned"
    /\ UNCHANGED << exit_status, ended >>

\* `checks_passed &= check(...)`: the check returns value
Return(check, value) ==
    /\ res' = [res EXCEPT ![check] = BoolStr(value)]
    /\ checks_passed' = IF caller = "main" THEN (checks_passed /\ value) ELSE checks_passed
    /\ pc' = IF caller = "main" THEN After(check) ELSE "returned"
    /\ UNCHANGED << exit_status, ended >>

\* an exception no handler catches leaves the check and ends the process
Raise(check) ==
    /\ res' = [res EXCEPT ![check] = "raised"]
    /\ pc' = "done"
    /\ exit_status' = 1
    /\ ended' = "exception"
    /\ UNCHANGED checks_passed

\* sys.exit(status) or an exception raised in main() itself
Exit(status, how) ==
    /\ pc' = "done"
    /\ exit_status' = status
    /\ ended' = how

----------------------------------------------------------------------------
(* main() of both tools: parse_args and load_yaml_config *)

\* argparse: a usage error exits with status 2, --help with status 0
parse_args ==
    /\ pc = "parse_args"
    /\ IF argv = "usage" THEN Exit(2, "usage")
       ELSE IF argv = "help" THEN Exit(0, "help")
       ELSE pc' = "load_yaml_config" /\ UNCHANGED << exit_status, ended >>
    /\ UNCHANGED << tool, caller, argv, bundle_arg, cfgfile, cfg, token, fs, fs0, syscalls,
                    mfile, manifest, content, checks_passed, all_valid, keys_to_check,
                    idx, res, order, report >>

\* FileNotFoundError and yaml.YAMLError exit with status 1; any other error
\* of open() is not caught
load_yaml_config ==
    /\ pc = "load_yaml_config"
    /\ IF cfgfile \in { "missing", "malformed" } THEN Exit(1, "fatal_config")
       ELSE IF cfgfile = "unreadable" THEN Exit(1, "exception")
       ELSE /\ pc' = IF tool = "preflight" THEN "check_notion_token" ELSE "lookup_bundle"
            /\ UNCHANGED << exit_status, ended >>
    /\ UNCHANGED << tool, caller, argv, bundle_arg, cfgfile, cfg, token, fs, fs0, syscalls,
                    mfile, manifest, content, checks_passed, all_valid, keys_to_check,
                    idx, res, order, report >>

\* the summary banner and the final sys.exit
Summary ==
    /\ pc = "summary"
    /\ Exit(IF checks_passed THEN 0 ELSE 1, "summary")
    /\ UNCHANGED << tool, caller, argv, bundle_arg, cfgfile, cfg, token, fs, fs0, syscalls,
                    mfile, manifest, content, checks_passed, all_valid, keys_to_check,
                    idx, res, order, report >>

----------------------------------------------------------------------------
(* preflight.py: the three checks *)

CheckNotionToken ==
    /\ pc = "check_notion_token"
    /\ order' = Append(order, "token")
    /\ Return("token", check_notion_token(token))
    /\ UNCHANGED << tool, caller, argv, bundle_arg, cfgfile, cfg, token, fs, fs0, syscalls,
                    mfile, manifest, content, all_valid, keys_to_check, idx, report >>

\* lines 49-55: the bundle map and the keys to check
check_bundle_config_enter ==
    /\ pc = "check_bundle_config"
    /\ order' = Append(order, "bundle")
    /\ report' = << >>
    /\ idx' = 1
    /\ all_valid' = TRUE
    /\ IF cfg.top # "map"                                       \* cfg.get
       THEN Raise("bundle") /\ UNCHANGED keys_to_check
       ELSE IF cfg.ebkind \in { "absent", "null", "empty" }     \* not bundles
       THEN Return("bundle", FALSE) /\ UNCHANGED keys_to_check
       ELSE IF Truthy(bundle_arg)
       THEN /\ keys_to_check' = << bundle_arg >>
            /\ pc' = "bundle_loop"
            /\ UNCHANGED << res, checks_passed, exit_status, ended >>
       ELSE IF cfg.ebkind # "map"                               \* bundles.keys()
       THEN Raise("bundle") /\ UNCHANGED keys_to_check
       ELSE /\ keys_to_check' = Keys(cfg)
            /\ pc' = "bundle_loop"
            /\ UNCHANGED << res, checks_passed, exit_status, ended >>
    /\ UNCHANGED << tool, caller, argv, bundle_arg, cfgfile, cfg, token, fs, fs0, syscalls,
                    mfile, manifest, content >>

\* lines 57-99: one iteration of the loop over keys_to_check
check_bundle_config_key ==
    /\ pc = "bundle_loop"
    /\ idx <= Len(keys_to_check)
    /\ LET key == keys_to_check[idx]
       IN  IF ~HasKey(cfg, key)                                 \* key not in bundles
           THEN /\ all_valid' = FALSE
                /\ report' = Append(report, [key |-> key, found |-> FALSE, fails |-> 1,
                                             warns |-> 0, todo |-> -1])
                /\ idx' = idx + 1
                /\ UNCHANGED << pc, res, checks_passed, exit_status, ended >>
           ELSE IF cfg.ebkind # "map"                           \* bundles[key] on a list
           THEN Raise("bundle") /\ UNCHANGED << all_valid, report, idx >>
           ELSE LET b == CheckBundle(Lookup(cfg, key))
                IN  IF b.raised
                    THEN Raise("bundle") /\ UNCHANGED << all_valid, report, idx >>
                    ELSE /\ all_valid' = (all_valid /\ b.valid)
                         /\ report' = Append(report, [key |-> key, found |-> TRUE,
                                                      fails |-> b.fails, warns |-> b.warns,
                                                      todo |-> b.todo])
                         /\ idx' = idx + 1
                         /\ UNCHANGED << pc, res, checks_passed, exit_status, ended >>
    /\ UNCHANGED << tool, caller, argv, bundle_arg, cfgfile, cfg, token, fs, fs0, syscalls,
                    mfile, manifest, content, keys_to_check, order >>

\* line 101: return all_valid
check_bundle_config_return ==
    /\ pc = "bundle_loop"
    /\ idx > Len(keys_to_check)
    /\ Return("bundle", all_valid)
    /\ UNCHANGED << tool, caller, argv, bundle_arg, cfgfile, cfg, token, fs, fs0, syscalls,
                    mfile, manifest, content, all_valid, keys_to_check, idx, order, report >>

\* lines 104-125
check_output_directories ==
    /\ pc = "check_output_directories"
    /\ order' = Append(order, "dir")
    /\ fs0' = fs
    /\ IF cfg.top # "map" \/ cfg.dfkind = "junk" \/ cfg.rootkind = "junk"
       THEN \* cfg.get, defaults.get, Path(output_root): outside the try block
            Raise("dir") /\ UNCHANGED << fs, syscalls >>
       ELSE \E o \in Outcomes :
                /\ syscalls' = Consulted(fs, o)
                /\ fs' = ProbeWrite(fs, o).fs
                /\ Return("dir", ProbeWrite(fs, o).result)
    /\ UNCHANGED << tool, caller, argv, bundle_arg, cfgfile, cfg, token, mfile, manifest,
                    content, all_valid, keys_to_check, idx, report >>

----------------------------------------------------------------------------
(* verify_bundle.py: csv.reader over the lines of a data file *)

\* characters of a data file: an ordinary character, the delimiter, the
\* quote character and the line break
Chars == { "x", ",", "q", "n" }

\* the lines the file iterator yields, each with its line break
RECURSIVE SplitLines(_, _)
SplitLines(text, cur) ==
    IF text = << >> THEN (IF cur = << >> THEN << >> ELSE << cur >>)
    ELSE IF Head(text) = "n" THEN << Append(cur, "n") >> \o SplitLines(Tail(text), << >>)
    ELSE SplitLines(Tail(text), Append(cur, Head(text)))

\* one character through the reader's state machine (excel dialect, not strict);
\* "EOL" is the end-of-line marker the reader feeds after every line
ProcessChar(st, c) ==
    CASE st \in { "START_RECORD", "START_FIELD" } ->
            (IF c = "n" THEN "EAT_CRNL"
             ELSE IF c = "EOL" THEN "START_RECORD"
             ELSE IF c = "q" THEN "IN_QUOTED_FIELD"
             ELSE IF c = "," THEN "START_FIELD"
             ELSE "IN_FIELD")
      [] st = "IN_FIELD" ->
            (IF c = "n" THEN "EAT_CRNL"
             ELSE IF c = "EOL" THEN "START_RECORD"
             ELSE IF c = "," THEN "START_FIELD"
             ELSE "IN_FIELD")
      [] st = "IN_QUOTED_FIELD" ->
            (IF c = "q" THEN "QUOTE_IN_QUOTED_FIELD" ELSE "IN_QUOTED_FIELD")
      [] st = "QUOTE_IN_QUOTED_FIELD" ->
            (IF c = "q" THEN "IN_QUOTED_FIELD"
             ELSE IF c = "," THEN "START_FIELD"
             ELSE IF c = "n" THEN "EAT_CRNL"
             ELSE IF c = "EOL" THEN "START_RECORD"
             ELSE "IN_FIELD")
      [] st = "EAT_CRNL" ->
            (IF c = "EOL" THEN "START_RECORD" ELSE "EAT_CRNL")

RECURSIVE ProcessLine(_, _)
ProcessLine(st, line) ==
    IF line = << >> THEN ProcessChar(st, "EOL")
    ELSE ProcessLine(ProcessChar(st, Head(line)), Tail(line))

\* len(list(reader)): a record ends with the line that leaves the reader in
\* START_RECORD; at the end of the input an open quoted field ends the record
RECURSIVE CountRecords(_, _)
CountRecords(lines, st) ==
    IF lines = << >> THEN (IF st = "IN_QUOTED_FIELD" THEN 1 ELSE 0)
    ELSE LET st2 == ProcessLine(st, Head(lines))
         IN  IF st2 = "START_RECORD" THEN 1 + CountRecords(Tail(lines), "START_RECORD")
             ELSE CountRecords(Tail(lines), st2)

\* a count of the line breaks: a last line without one is not counted
CsvRows_LineBreaks(text) == Cardinality({ i \in 1..Len(text) : text[i] = "n" })

CsvRows(text) == CountRecords(SplitLines(text, << >>), "START_RECORD")

----------------------------------------------------------------------------
(* verify_bundle.py: the checks *)

\* an item check in which a row-count mismatch counts as a read error
VerifyItem_MismatchFails(item) ==
    IF item.kind # "map" \/ (item.kind = "map" /\ item.outkind = "junk")
    THEN [outcome |-> "raise", actual |-> 0, warned |-> FALSE]
    ELSE IF item.outkind = "absent" \/ item.file = "unreadable"
    THEN [outcome |-> "readerror", actual |-> 0, warned |-> FALSE]
    ELSE IF item.file = "missing"
    THEN [outcome |-> "missing", actual |-> 0, warned |-> FALSE]
    ELSE LET row_count == IF item.rcgiven THEN item.rc ELSE 0
             actual_count == CsvRows(item.content) - 1
         IN  [outcome |-> IF actual_count # row_count THEN "readerror" ELSE "verified",
              actual |-> actual_count, warned |-> actual_count # row_count]

\* lines 60-83: one item of the manifest.  outcome: "raise" | "missing" |
\* "readerror" | "verified"
VerifyItem(item) ==
    IF item.kind # "map" THEN [outcome |-> "raise", actual |-> 0, warned |-> FALSE]
    ELSE IF item.outkind = "junk"                       \* pkg_dir / output_path
    THEN [outcome |-> "raise", actual |-> 0, warned |-> FALSE]
    ELSE IF item.outkind = "absent"                     \* pkg_dir / "": a directory
    THEN [outcome |-> "readerror", actual |-> 0, warned |-> FALSE]
    ELSE IF item.file = "missing"
    THEN [outcome |-> "missing", actual |-> 0, warned |-> FALSE]
    ELSE IF item.file = "unreadable"
    THEN [outcome |-> "readerror", actual |-> 0, warned |-> FALSE]
    ELSE LET row_count == IF item.rcgiven THEN item.rc ELSE 0
             actual_count == CsvRows(item.content) - 1
         IN  [outcome |-> "verified", actual |-> actual_count,
              warned |-> actual_count # row_count]

\* a version check in which a mismatch is a warning only
verify_schema_version_WarnOnly(actual_version, expected_version) ==
    IF actual_version \in { "absent", "" } THEN FALSE ELSE TRUE

\* lines 101-114; actual is "absent" when the manifest has no schema_version
verify_schema_version(actual_version, expected_version) ==
    IF actual_version \in { "absent", "" } THEN FALSE       \* not actual_version
    ELSE IF actual_version # expected_version THEN FALSE
    ELSE TRUE

\* lines 129-138: the bundle lookup and the paths
LookupBundle ==
    /\ pc = "lookup_bundle"
    /\ IF cfg.top # "map" \/ cfg.ebkind = "null"
       THEN Exit(1, "exception")                  \* cfg.get; args.bundle not in None
       ELSE IF ~HasKey(cfg, bundle_arg)
       THEN Exit(1, "fatal_bundle")
       ELSE IF cfg.ebkind # "map" \/ cfg.dfkind = "junk" \/ cfg.rootkind = "junk"
               \/ cfg.mfkind = "junk"
       THEN Exit(1, "exception")     \* bundles[key], defaults.get, Path(...) / ...
       ELSE pc' = "verify_manifest" /\ UNCHANGED << exit_status, ended >>
    /\ UNCHANGED << tool, caller, argv, bundle_arg, cfgfile, cfg, token, fs, fs0, syscalls,
                    mfile, manifest, content, checks_passed, all_valid, keys_to_check,
                    idx, res, order, report >>

\* verify_manifest (lines 35-48) and main() lines 144-149
verify_manifest ==
    /\ pc = "verify_manifest"
    /\ order' = Append(order, "manifest")
    /\ IF mfile = "unreadable"                     \* open(): an OSError is not caught
       THEN Raise("manifest")
       ELSE IF mfile \in { "missing", "malformed" }
       THEN /\ res' = [res EXCEPT !.manifest = "false"]
            /\ checks_passed' = FALSE
            /\ Exit(1, "fatal_manifest")
       ELSE /\ res' = [res EXCEPT !.manifest = "true"]
            /\ pc' = "verify_csv_files"
            /\ UNCHANGED << checks_passed, exit_status, ended >>
    /\ UNCHANGED << tool, caller, argv, bundle_arg, cfgfile, cfg, token, fs, fs0, syscalls,
                    mfile, manifest, content, all_valid, keys_to_check, idx, report >>

\* verify_csv_files, lines 53-58
verify_csv_files_enter ==
    /\ pc = "verify_csv_files"
    /\ order' = Append(order, "csv")
    /\ report' = << >>
    /\ idx' = 1
    /\ all_valid' = TRUE
    /\ IF manifest.top # "map" \/ manifest.itemskind = "junk"   \* manifest.get; for item in
       THEN Raise("csv")
       ELSE IF manifest.itemskind \in { "absent", "empty" }     \* not items
       THEN Return("csv", FALSE)
       ELSE pc' = "csv_loop" /\ UNCHANGED << res, checks_passed, exit_status, ended >>
    /\ UNCHANGED << tool, caller, argv, bundle_arg, cfgfile, cfg, token, fs, fs0, syscalls,
                    mfile, manifest, content, keys_to_check >>

\* verify_csv_files, lines 59-83: one iteration of the loop over the items
verify_csv_files_item ==
    /\ pc = "csv_loop"
    /\ idx <= Len(manifest.items)
    /\ LET v == VerifyItem(manifest.items[idx])
       IN  IF v.outcome = "raise"
           THEN Raise("csv") /\ UNCHANGED << all_valid, report, idx, content >>
           ELSE /\ all_valid' = (all_valid /\ v.outcome = "verified")
                /\ report' = Append(report, [item |-> idx, outcome |-> v.outcome,
                                             actual |-> v.actual, warned |-> v.warned])
                /\ content' = IF v.outcome = "verified" THEN manifest.items[idx].content
                              ELSE content
                /\ idx' = idx + 1
                /\ UNCHANGED << pc, res, checks_passed, exit_status, ended >>
    /\ UNCHANGED << tool, caller, argv, bundle_arg, cfgfile, cfg, token, fs, fs0, syscalls,
                    mfile, manifest, keys_to_check, order >>

\* verify_csv_files, line 85
verify_csv_files_return ==
    /\ pc = "csv_loop"
    /\ idx > Len(manifest.items)
    /\ Return("csv", all_valid)
    /\ UNCHANGED << tool, caller, argv, bundle_arg, cfgfile, cfg, token, fs, fs0, syscalls,
                    mfile, manifest, content, all_valid, keys_to_check, idx, order, report >>

\* main() line 155 and verify_schema_version
VerifySchemaVersion ==
    /\ pc = "verify_schema_version"
    /\ LET bundle_cfg == Lookup(cfg, bundle_arg)
       IN  IF bundle_cfg.kind # "map"                            \* bundle_cfg.get
           THEN Exit(1, "exception") /\ UNCHANGED << res, checks_passed, order >>
           ELSE LET expected_version ==
                        IF bundle_cfg.sv = "absent" THEN DEFAULT_VERSION ELSE bundle_cfg.sv
                IN  /\ order' = Append(order, "schema")
                    /\ Return("schema", verify_schema_version(manifest.sv, expected_version))
    /\ UNCHANGED << tool, caller, argv, bundle_arg, cfgfile, cfg, token, fs, fs0, syscalls,
                    mfile, manifest, content, all_valid, keys_to_check, idx, report >>

\* verify_chittyid_compliance, lines 88-98
verify_chittyid_compliance ==
    /\ pc = "verify_chittyid_compliance"
    /\ order' = Append(order, "chitty")
    /\ IF manifest.audit = "junk"                                \* audit.get
       THEN Raise("chitty")
       ELSE Return("chitty", TRUE)
    /\ UNCHANGED << tool, caller, argv, bundle_arg, cfgfile, cfg, token, fs, fs0, syscalls,
                    mfile, manifest, content, all_valid, keys_to_check, idx, report >>

----------------------------------------------------------------------------
(* Inputs *)

Argvs == { "ok", "usage", "help" }
CfgFiles == { "ok", "missing", "malformed", "unreadable" }
Filters == { NONE, "", "governance", UnknownKey }
Tokens == { -1, 0, MinTokenLen - 1, MinTokenLen, MinTokenLen + 1 }

FsStates ==
    { [root |-> "absent", probe |-> "absent", others |-> { }],
      [root |-> "file", probe |-> "absent", others |-> { }] }
    \cup { [root |-> "dir", probe |-> p, others |-> { "export.csv" }] : p \in { "absent", "file" } }

NoConfig == Config("none", "absent", << >>, "absent", "absent", "absent")
NoFs == [root |-> "absent", probe |-> "absent", others |-> { }]
NoManifest ==
    [top |-> "junk", itemskind |-> "absent", items |-> << >>, sv |-> "absent",
     audit |-> "absent"]

PreflightVersions == { "absent", "2.0.0" }

\* the configurations of a whole preflight run: one bundle, one database entry
PreflightConfigs ==
    LET B == UNION { BundleShapes(k, 1, PreflightVersions) : k \in BundleKeys }
    IN  Configs({ << b >> : b \in B },
                { d \in Defaults : d[3] = "absent" })

\* the configurations of the bundle-configuration check
BundleCheckConfigs ==
    Configs(BundleMaps(MaxDbs, PreflightVersions), { << "absent", "absent", "absent" >> })

Idle ==
    /\ mfile = "missing"
    /\ manifest = NoManifest
    /\ content = << >>
    /\ syscalls = NoSyscalls
    /\ checks_passed = TRUE
    /\ all_valid = TRUE
    /\ keys_to_check = << >>
    /\ idx = 1
    /\ res = NoRes
    /\ order = << >>
    /\ report = << >>
    /\ exit_status = -1
    /\ ended = "running"

\* a run of preflight.py
InitPreflight ==
    /\ tool = "preflight"
    /\ pc = "parse_args"
    /\ caller = "main"
    /\ argv \in Argvs
    /\ bundle_arg \in IF argv = "ok" THEN Filters ELSE { NONE }
    /\ cfgfile \in IF argv = "ok" THEN CfgFiles ELSE { "missing" }
    /\ cfg \in IF argv = "ok" /\ cfgfile = "ok" THEN PreflightConfigs ELSE { NoConfig }
    /\ token \in IF argv = "ok" /\ cfgfile = "ok" THEN Tokens ELSE { -1 }
    /\ fs \in IF argv = "ok" /\ cfgfile = "ok" THEN FsStates ELSE { NoFs }
    /\ fs0 = fs
    /\ Idle

NextPreflight ==
    \/ parse_args
    \/ load_yaml_config
    \/ CheckNotionToken
    \/ check_bundle_config_enter
    \/ check_bundle_config_key
    \/ check_bundle_config_return
    \/ check_output_directories
    \/ Summary

SpecPreflight == InitPreflight /\ [][NextPreflight]_vars

\* check_bundle_config called on its own
InitBundleCheck ==
    /\ tool = "preflight"
    /\ pc = "check_bundle_config"
    /\ caller = "none"
    /\ argv = "ok"
    /\ bundle_arg \in Filters
    /\ cfgfile = "ok"
    /\ cfg \in BundleCheckConfigs
    /\ token = -1
    /\ fs = NoFs
    /\ fs0 = fs
    /\ Idle

NextBundleCheck ==
    \/ check_bundle_config_enter
    \/ check_bundle_config_key
    \/ check_bundle_config_return

SpecBundleCheck == InitBundleCheck /\ [][NextBundleCheck]_vars

----------------------------------------------------------------------------
(* Inputs of verify_bundle.py *)

JunkItem ==
    [kind |-> "junk", outkind |-> "absent", file |-> "missing", rcgiven |-> FALSE,
     rc |-> 0, content |-> << >>]

Item(ok, f, g, c, t) ==
    [kind |-> "map", outkind |-> ok, file |-> f, rcgiven |-> g, rc |-> c, content |-> t]

\* data files of a whole run: a header alone, and a header with one row
SampleTexts == { << "x", "n" >>, << "x", "n", "x", "n" >> }

ItemsWith(texts, counts) ==
    { JunkItem }
    \cup { Item(ok, "missing", FALSE, 0, << >>) : ok \in { "absent", "junk" } }
    \cup { Item("str", f, FALSE, 0, << >>) : f \in { "missing", "unreadable" } }
    \cup { Item("str", "ok", FALSE, 0, t) : t \in texts }
    \cup { Item("str", "ok", TRUE, c, t) : c \in counts, t \in texts }

ManifestVersions == { "absent", "", "1.0.0", "2.0.0" }
Audits == { "absent", "junk", "noid", "id" }

Manifest(ik, its, v, a) ==
    [top |-> "map", itemskind |-> ik, items |-> its, sv |-> v, audit |-> a]

Manifests(itemlists) ==
    { NoManifest }
    \cup { Manifest(ik, << >>, v, a) :
             ik \in { "absent", "empty", "junk" }, v \in ManifestVersions, a \in Audits }
    \cup { Manifest("list", its, v, a) :
             its \in itemlists, v \in ManifestVersions, a \in Audits }

VerifierBundles(k) ==
    { JunkBundle(k) }
    \cup { [key |-> k, kind |-> "map", name |-> TRUE, sv |-> v, dbkind |-> "list",
            dbs |-> << [kind |-> "map", urlkind |-> "str", url |-> << "h" >>] >>] :
             v \in { "absent", "2.0.0" } }

VerifierConfigs ==
    Configs({ << b >> : b \in VerifierBundles("governance") },
            Defaults)

MFiles == { "ok", "missing", "malformed", "unreadable" }

\* the configurations with which LookupBundle reaches verify_manifest
Survives(c, key) ==
    /\ c.top = "map" /\ c.ebkind = "map" /\ HasKey(c, key)
    /\ c.dfkind # "junk" /\ c.rootkind # "junk" /\ c.mfkind # "junk"

\* a run of verify_bundle.py
InitVerifier ==
    /\ tool = "verify"
    /\ pc = "parse_args"
    /\ caller = "main"
    /\ argv \in Argvs
    /\ bundle_arg \in IF argv = "ok" THEN { "governance", UnknownKey } ELSE { NONE }
    /\ cfgfile \in IF argv = "ok" THEN CfgFiles ELSE { "missing" }
    /\ cfg \in IF argv = "ok" /\ cfgfile = "ok" THEN VerifierConfigs ELSE { NoConfig }
    /\ mfile \in IF argv = "ok" /\ cfgfile = "ok" /\ Survives(cfg, bundle_arg)
                 THEN MFiles ELSE { "missing" }
    /\ manifest \in IF mfile = "ok"
                    THEN Manifests(SeqsUpTo(ItemsWith(SampleTexts, { 1 }), MaxItems) \ { << >> })
                    ELSE { NoManifest }
    /\ token = -1
    /\ fs = NoFs
    /\ fs0 = fs
    /\ content = << >>
    /\ syscalls = NoSyscalls
    /\ checks_passed = TRUE
    /\ all_valid = TRUE
    /\ keys_to_check = << >>
    /\ idx = 1
    /\ res = NoRes
    /\ order = << >>
    /\ report = << >>
    /\ exit_status = -1
    /\ ended = "running"

NextVerifier ==
    \/ parse_args
    \/ load_yaml_config
    \/ LookupBundle
    \/ verify_manifest
    \/ verify_csv_files_enter
    \/ verify_csv_files_item
    \/ verify_csv_files_return
    \/ VerifySchemaVersion
    \/ verify_chittyid_compliance
    \/ Summary

SpecVerifier == InitVerifier /\ [][NextVerifier]_vars

\* verify_csv_files on a manifest with one readable data file
InitCsv ==
    /\ tool = "verify"
    /\ pc = "verify_csv_files"
    /\ caller = "none"
    /\ argv = "ok"
    /\ bundle_arg = "governance"
    /\ cfgfile = "ok"
    /\ cfg = NoConfig
    /\ mfile = "ok"
    /\ manifest \in { Manifest("list", << Item("str", "ok", g, c, t) >>, "1.0.0", "absent") :
                        g \in BOOLEAN, c \in -1..2, t \in SeqsUpTo(Chars, MaxLen) }
    /\ (manifest.items[1].rcgiven \/ manifest.items[1].rc = 0)
    /\ token = -1
    /\ fs = NoFs
    /\ fs0 = fs
    /\ content = << >>
    /\ syscalls = NoSyscalls
    /\ checks_passed = TRUE
    /\ all_valid = TRUE
    /\ keys_to_check = << >>
    /\ idx = 1
    /\ res = NoRes
    /\ order = << >>
    /\ report = << >>
    /\ exit_status = -1
    /\ ended = "running"

NextCsv ==
    \/ verify_csv_files_enter
    \/ verify_csv_files_item
    \/ verify_csv_files_return

SpecCsv == InitCsv /\ [][NextCsv]_vars

----------------------------------------------------------------------------
(* Properties *)

Finished == pc = "done"

\* the configured version the verifier expects for its bundle
ExpectedVersion ==
    LET b == Lookup(cfg, bundle_arg)
    IN  IF b.sv = "absent" THEN DEFAULT_VERSION ELSE b.sv

\* C1: a preflight run whose configuration file loads runs the three checks in
\* the order credential, bundle configuration, output directory, whatever the
\* earlier results, and exits with status 0 exactly when the token has at
\* least 20 characters and the two other checks returned true, else with 1.
C1_PreflightRunsAllChecks ==
    (tool = "preflight" /\ Finished /\ argv = "ok" /\ cfgfile = "ok") =>
        /\ order = << "token", "bundle", "dir" >>
        /\ exit_status \in { 0, 1 }
        /\ exit_status = 0 <=>
              (token >= MinTokenLen /\ res.bundle = "true" /\ res.dir = "true")

AllVerified ==
    /\ cfgfile = "ok" /\ cfg.top = "map" /\ HasKey(cfg, bundle_arg)
    /\ res.manifest = "true" /\ res.csv = "true"
    /\ res.schema = "true" /\ res.chitty = "true"

\* C2 as claimed: every verifier run ends with status 0 or 1, and with 0 exactly
\* when the configuration loaded, the bundle key is present, the manifest
\* loaded and the three checks returned true.
C2_EveryRunExitsZeroOrOne ==
    (tool = "verify" /\ Finished) =>
        /\ exit_status \in { 0, 1 }
        /\ exit_status = 0 <=> AllVerified

\* C2 amended: a verifier run whose command line the argument parser accepts
\* ends with status 0 or 1, with 0 exactly when the configuration loaded, the
\* bundle key is present, the manifest loaded and the three checks returned
\* true; an unknown bundle key and an unloadable manifest end it with 1.
C2_AcceptedRunExitsZeroOrOne ==
    (tool = "verify" /\ Finished /\ argv = "ok") =>
        /\ exit_status \in { 0, 1 }
        /\ exit_status = 0 <=> AllVerified
        /\ ended \in { "fatal_config", "fatal_bundle", "fatal_manifest" } => exit_status = 1
        /\ (\E c \in DOMAIN res : res[c] = "false") => exit_status = 1

C2_Witness ==
    /\ tool = "verify" /\ Finished /\ argv = "ok" /\ exit_status = 0
    /\ Len(manifest.items) = 2
    /\ \E i \in 1..Len(report) : report[i].warned

\* C3: an unknown bundle key ends the run before the manifest is loaded; a
\* missing or malformed manifest ends it with status 1 before any of the three
\* later checks; once the manifest has loaded, the data-file, schema-version
\* and identifier checks all run, in that order.
C3_FatalStopsElseAllChecksRun ==
    (tool = "verify" /\ Finished) =>
        /\ ended = "fatal_bundle" => (res.manifest = "notrun" /\ order = << >>)
        /\ ended = "fatal_manifest" => (exit_status = 1 /\ order = << "manifest" >>)
        /\ res.manifest = "true" => order = << "manifest", "csv", "schema", "chitty" >>

\* the keys the bundle-configuration check is to examine
CheckedKeys == IF Truthy(bundle_arg) THEN << bundle_arg >> ELSE Keys(cfg)

\* a hard failure of one bundle definition
HardFailure(b) == ~b.name \/ b.sv = "absent" \/ b.dbkind \in { "absent", "empty" }

NoHardFailure ==
    /\ cfg.ebkind \notin { "absent", "null", "empty" }
    /\ \A i \in 1..Len(CheckedKeys) :
          HasKey(cfg, CheckedKeys[i]) /\ ~HardFailure(Lookup(cfg, CheckedKeys[i]))

\* the database entries of a bundle whose notion_url starts with "TODO:"
TodoEntries(b) ==
    Cardinality({ j \in 1..Len(b.dbs) :
                    /\ b.dbs[j].urlkind = "str"
                    /\ Len(b.dbs[j].url) >= 5
                    /\ SubSeq(b.dbs[j].url, 1, 5) = TODO_MARKER })

AllReadable ==
    /\ manifest.top = "map"
    /\ manifest.itemskind # "junk"
    /\ \A i \in 1..Len(manifest.items) :
          LET it == manifest.items[i]
          IN  it.kind = "map" /\ it.outkind = "str" /\ it.file = "ok"

CsvEnded == res.csv # "notrun"

\* C5 as claimed: for all manifests where every item's file exists and is
\* readable, the data-file check returns true.
C5_AllReadableReturnsTrue ==
    (tool = "verify" /\ CsvEnded /\ AllReadable) => res.csv = "true"

\* C5 amended: for all manifests with at least one item where every item's
\* file exists and is readable, the data-file check returns true, whether or
\* not the recorded and actual row counts match.
C5_NonEmptyAllReadableReturnsTrue ==
    (tool = "verify" /\ CsvEnded /\ AllReadable /\ manifest.itemskind = "list") =>
        res.csv = "true"

C5_Witness ==
    /\ tool = "verify" /\ res.csv = "true" /\ AllReadable
    /\ Len(report) = 2
    /\ report[1].warned /\ ~report[2].warned

\* at least one item of the manifest names a file that does not exist
SomeMissing ==
    /\ manifest.top = "map"
    /\ manifest.itemskind = "list"
    /\ \E i \in 1..Len(manifest.items) :
          LET it == manifest.items[i]
          IN  it.kind = "map" /\ it.outkind = "str" /\ it.file = "missing"

\* C6: for all manifests where at least one item names a non-existent file,
\* the data-file check returns false after it examined every item once, in
\* manifest order.
C6_MissingFileNoEarlyAbort ==
    (tool = "verify" /\ CsvEnded /\ SomeMissing) =>
        /\ res.csv = "false"
        /\ [i \in 1..Len(report) |-> report[i].item] = [i \in 1..Len(manifest.items) |-> i]

\* C7: the schema-version check returns true when the manifest's
\* schema_version equals the version configured for the bundle ("1.0.0" when
\* none is configured), false when the manifest has none (absent or empty) or
\* a different one; a run whose version check returned false exits with 1.
C7_SchemaVersionStrict ==
    (tool = "verify" /\ res.schema \in { "true", "false" }) =>
        /\ res.schema = "true" <=>
              (manifest.sv \notin { "absent", "" } /\ manifest.sv = ExpectedVersion)
        /\ (Finished /\ res.schema = "false") => exit_status = 1

C7_Witness ==
    /\ tool = "verify" /\ Finished /\ exit_status = 1 /\ ended = "summary"
    /\ res.csv = "true" /\ res.chitty = "true" /\ res.schema = "false"
    /\ manifest.sv = "1.0.0" /\ ExpectedVersion = "2.0.0"
    /\ \E i \in 1..Len(report) : report[i].warned

\* C8: no exception leaves a check function, and a run that the argument
\* parser accepted ends through the summary or through one of the fatal exits
\* (configuration file, unknown bundle key, manifest).
C8_NoExceptionEscapes ==
    /\ \A c \in DOMAIN res : res[c] # "raised"
    /\ (Finished /\ argv = "ok") =>
          ended \in { "summary", "fatal_config", "fatal_bundle", "fatal_manifest" }

\* the number of lines of a text
LineCount(text) ==
    Cardinality({ i \in 1..Len(text) : text[i] = "n" })
    + (IF text # << >> /\ text[Len(text)] # "n" THEN 1 ELSE 0)

RecordedCount == IF manifest.items[1].rcgiven THEN manifest.items[1].rc ELSE 0

CsvVerified == tool = "verify" /\ caller = "none" /\ Len(report) = 1

\* C9 as claimed: the row count of a readable data file is its number of
\* lines minus 1, and the mismatch warning is emitted exactly when that value
\* differs from the recorded row_count (0 when none is recorded).
C9_RowCountIsLinesMinusOne ==
    CsvVerified =>
        /\ report[1].actual = LineCount(manifest.items[1].content) - 1
        /\ report[1].warned <=> (report[1].actual # RecordedCount)

\* C9 amended: the row count of a readable data file is never more than its
\* number of lines minus 1, and is equal to it when the file holds no quote
\* character (a quoted field that spans line breaks is one row); the mismatch
\* warning is emitted exactly when the computed value differs from the
\* recorded row_count (0 when none is recorded).
C9_RowCountIsRecordsMinusOne ==
    CsvVerified =>
        LET text == manifest.items[1].content
        IN  /\ report[1].actual <= LineCount(text) - 1
            /\ (\A i \in 1..Len(text) : text[i] # "q") =>
                  report[1].actual = LineCount(text) - 1
            /\ report[1].warned <=> (report[1].actual # RecordedCount)

C9_Witness ==
    /\ CsvVerified
    /\ manifest.items[1].content = << "x", "n", "x" >>
    /\ report[1].actual = 1
    /\ manifest.items[1].rcgiven /\ manifest.items[1].rc = 2
    /\ report[1].warned

DirReturned == tool = "preflight" /\ res.dir \in { "true", "false" }

SyscallFailed ==
    syscalls.mkdir = "fail" \/ syscalls.write \in { "fail", "partial" } \/ syscalls.unlink = "fail"

\* C10 as claimed: whenever the output-directory check returns, no probe file
\* exists in the output directory and the other files are unchanged; a failed
\* directory creation, probe write or probe delete makes it return false.
C10_ProbeNeverRemains ==
    DirReturned =>
        /\ fs.probe = "absent"
        /\ fs.others = fs0.others
        /\ SyscallFailed => res.dir = "false"

\* C10 amended: whenever the output-directory check returns true, the output
\* directory exists and holds no probe file; whenever it returns, the other
\* files are unchanged; a failed directory creation, probe write or probe
\* delete makes it return false, and a failed creation leaves the probe file
\* name as it was.
C10_ProbeRemovedOnSuccess ==
    DirReturned =>
        /\ res.dir = "true" => (fs.probe = "absent" /\ fs.root = "dir")
        /\ fs.others = fs0.others
        /\ SyscallFailed => res.dir = "false"
        /\ syscalls.mkdir = "fail" => fs = fs0

C10_Witness ==
    /\ DirReturned /\ res.dir = "true"
    /\ fs0.root = "absent" /\ fs.root = "dir" /\ fs.probe = "absent"
    /\ syscalls = [mkdir |-> "ok", write |-> "ok", unlink |-> "ok"]

====
